---- MODULE Spec2Model ----
(***************************************************************************)
(* The partner-portal credit card pay button of wp-calypso:                *)
(* client/jetpack-cloud/sections/partner-portal/credit-card-fields/        *)
(* credit-card-pay-button.js.                                              *)
(*                                                                         *)
(* The component reads the 'credit-card' store, the form status and the    *)
(* line items when it renders, and its click handler validates the store   *)
(* (isCreditCardFormValid), emits STRIPE_TRANSACTION_BEGIN and calls the   *)
(* caller's onClick.  The store's reducers and selectors, the Button       *)
(* component and the checkout hooks live outside the two source files, so  *)
(* they are modelled from the specification's sections 3 to 6.             *)
(***************************************************************************)
EXTENDS Naturals, Sequences, FiniteSets, TLC

\* Longest cardholder name the model types into the store.
MaxNameLen == 1

\* The characters of a cardholder name: a whitespace and a letter.
Chars == {" ", "a"}

RECURSIVE SeqsUpTo(_)
SeqsUpTo(n) ==
    IF n = 0 THEN {<<>>}
    ELSE LET shorter == SeqsUpTo(n - 1)
         IN  shorter \cup {Append(s, c) : s \in {t \in shorter : Len(t) = n - 1}, c \in Chars}

NameValues == SeqsUpTo(MaxNameLen)

\* fields.cardholderName: undefined until the field is first written, then { value }.
UndefinedField == [defined |-> FALSE, value |-> <<>>]
FieldRecord(v) == [defined |-> TRUE, value |-> v]
FieldValues == {UndefinedField} \cup {FieldRecord(v) : v \in NameValues}

\* The card elements of the payment form, in the order the store lists them.
CardFieldKeys == <<"cardNumber", "cardCvc">>
CardKeySet == {CardFieldKeys[i] : i \in DOMAIN CardFieldKeys}

Null == "null"
RequiredMsg == "This field is required"
InvalidMsg == "Your card number is invalid."
ErrorValues == {Null, InvalidMsg, RequiredMsg}

\* FormStatus of @automattic/composite-checkout.
LOADING == "LOADING"
READY == "READY"
SUBMITTING == "SUBMITTING"
COMPLETE == "COMPLETE"
FormStatus == {LOADING, READY, SUBMITTING, COMPLETE}

\* useLineItems(): [ items, total ].
Carts ==
    { [items |-> <<"jetpack-backup">>, total |-> [amount |-> [displayValue |-> "$9.99"]]],
      [items |-> <<"jetpack-backup", "jetpack-scan">>,
       total |-> [amount |-> [displayValue |-> "$24.99"]]] }

\* The activeButtonText prop: undefined (the default), empty, or a text.
NoText == "<undefined>"
ButtonTexts == {NoText, "", "Save payment method"}

VARIABLES
    store,       \* the 'credit-card' store: fields, cardDataErrors, cardDataComplete
    formStatus,  \* the checkout's FormStatus, owned by the orchestrator
    cart,        \* the current line items and total
    view,        \* what the latest render of CreditCardPayButton captured and drew
    last,        \* what the latest step did (the click's validation, dispatches, outputs)
    submitted    \* a click has submitted and FormStatus has not left SUBMITTING since

vars == <<store, formStatus, cart, view, last, submitted>>

-----------------------------------------------------------------------------
(* The 'credit-card' store: actions, reducer, selectors.                   *)

setFieldValue(key, value) == [type |-> "FIELD_VALUE_SET", key |-> key, fieldValue |-> value,
                              message |-> Null, complete |-> FALSE]
setCardDataError(key, message) == [type |-> "CARD_DATA_ERROR_SET", key |-> key,
                                   fieldValue |-> <<>>, message |-> message, complete |-> FALSE]
setCardDataComplete(key, complete) == [type |-> "CARD_DATA_COMPLETE_SET", key |-> key,
                                       fieldValue |-> <<>>, message |-> Null,
                                       complete |-> complete]

dispatch(st, action) ==
    CASE action.type = "FIELD_VALUE_SET" ->
            [st EXCEPT !.fields[action.key] = FieldRecord(action.fieldValue)]
      [] action.type = "CARD_DATA_ERROR_SET" ->
            [st EXCEPT !.cardDataErrors[action.key] = action.message]
      [] action.type = "CARD_DATA_COMPLETE_SET" ->
            [st EXCEPT !.cardDataComplete[action.key] = action.complete]

RECURSIVE dispatchAll(_, _)
dispatchAll(st, actions) ==
    IF actions = <<>> THEN st
    ELSE dispatchAll(dispatch(st, Head(actions)), Tail(actions))

getFields(st) == st.fields
getCardDataErrors(st) == st.cardDataErrors
getIncompleteFieldKeys(st) ==
    SelectSeq(CardFieldKeys, LAMBDA key : ~st.cardDataComplete[key])

InitialStore ==
    [fields |-> [k \in {"cardholderName"} |-> UndefinedField],
     cardDataErrors |-> [k \in CardKeySet |-> Null],
     cardDataComplete |-> [k \in CardKeySet |-> FALSE]]

-----------------------------------------------------------------------------
(* isCreditCardFormValid( store, 'stripe', __ )                            *)

\* JavaScript truthiness of an error mapping value.
Truthy(v) == v # Null /\ v # ""

RECURSIVE TrimStart(_)
TrimStart(s) == IF s # <<>> /\ Head(s) = " " THEN TrimStart(Tail(s)) ELSE s

RECURSIVE TrimEnd(_)
TrimEnd(s) == IF s # <<>> /\ s[Len(s)] = " " THEN TrimEnd(SubSeq(s, 1, Len(s) - 1)) ELSE s

\* String.prototype.trim
Trim(s) == TrimEnd(TrimStart(s))

\* Variant: the emptiness test trims the value first.
NameIsEmptyTrimmed(cardholderName) ==
    ~cardholderName.defined \/ Len(Trim(cardholderName.value)) = 0

\* ! cardholderName?.value.length
NameIsEmpty(cardholderName) == ~cardholderName.defined \/ Len(cardholderName.value) = 0

\* Variant: the field is touched on every validation.
TouchActionsAlways(cardholderName) == <<setFieldValue("cardholderName", <<>>)>>

\* Touch the field so it displays a validation error.
TouchActions(cardholderName) ==
    IF NameIsEmpty(cardholderName) THEN <<setFieldValue("cardholderName", <<>>)>> ELSE <<>>

\* Variant: only the first incomplete field is marked.
RequiredActionsFirstOnly(incompleteFieldKeys) ==
    IF incompleteFieldKeys = <<>> THEN <<>>
    ELSE <<setCardDataError(Head(incompleteFieldKeys), RequiredMsg)>>

\* Variant: every card field is marked, complete or not.
RequiredActionsEveryKey(incompleteFieldKeys) ==
    [i \in DOMAIN CardFieldKeys |-> setCardDataError(CardFieldKeys[i], RequiredMsg)]

\* Show "this field is required" for each incomplete field.
RequiredActions(incompleteFieldKeys) ==
    [i \in DOMAIN incompleteFieldKeys |-> setCardDataError(incompleteFieldKeys[i], RequiredMsg)]

\* Variant: the error mapping is not consulted.
FormVerdictIgnoresErrors(areThereErrors, cardholderName, incompleteFieldKeys) ==
    ~(NameIsEmpty(cardholderName) \/ Len(incompleteFieldKeys) > 0)

FormVerdict(areThereErrors, cardholderName, incompleteFieldKeys) ==
    ~(areThereErrors \/ NameIsEmpty(cardholderName) \/ Len(incompleteFieldKeys) > 0)

\* The call's result: the value returned, the store it leaves, the actions it dispatched
\* in order, and what it read on the way.
isCreditCardFormValid(st) ==
    LET fields == getFields(st)
        cardholderName == fields["cardholderName"]
        touch == TouchActions(cardholderName)
        touched == dispatchAll(st, touch)
        errors == getCardDataErrors(touched)
        incompleteFieldKeys == getIncompleteFieldKeys(touched)
        areThereErrors == \E errorKey \in DOMAIN errors : Truthy(errors[errorKey])
        required == RequiredActions(incompleteFieldKeys)
    IN  [ret |-> FormVerdict(areThereErrors, cardholderName, incompleteFieldKeys),
         store |-> dispatchAll(touched, required),
         dispatched |-> touch \o required,
         errors |-> errors,
         incompleteFieldKeys |-> incompleteFieldKeys]

-----------------------------------------------------------------------------
(* Rendering: ButtonContents and the props handed to Button.               *)

\* Variant: the caller's text is ignored.
ButtonContentsIgnoresText(status, total, activeButtonText) ==
    IF status = SUBMITTING THEN "Processing..."
    ELSE IF status = READY THEN "Pay " \o total.amount.displayValue
         ELSE "Please wait..."

\* The ellipsis of 'Processing...' and 'Please wait...' is one character in the source.
ButtonContents(status, total, activeButtonText) ==
    IF status = SUBMITTING THEN "Processing..."
    ELSE IF status = READY
         THEN IF activeButtonText # NoText /\ activeButtonText # ""
              THEN activeButtonText
              ELSE "Pay " \o total.amount.displayValue
         ELSE "Please wait..."

\* Variant: the busy flag is never raised.
BusyNever(status) == FALSE

Busy(status) == SUBMITTING = status

\* One evaluation of the component function: the hooks' values it closes over and
\* the element it returns.
RenderView(st, status, lineItems, disabled, activeButtonText) ==
    [cardholderName |-> getFields(st)["cardholderName"],
     formStatus |-> status,
     items |-> lineItems.items,
     total |-> lineItems.total,
     disabled |-> disabled,
     activeButtonText |-> activeButtonText,
     busy |-> Busy(status),
     label |-> ButtonContents(status, lineItems.total, activeButtonText)]

\* The caller keeps the button disabled until the checkout is ready, and is free
\* to disable it for reasons of its own afterwards.
CallerDisabled(status) == IF status = LOADING THEN {TRUE} ELSE BOOLEAN

\* The Button component hands a click to its onClick unless it is disabled or busy.
ButtonAcceptsClick(v) == ~v.disabled /\ ~v.busy

-----------------------------------------------------------------------------
(* The click handler.                                                      *)

BeginEvent == [out |-> "event", type |-> "STRIPE_TRANSACTION_BEGIN", name |-> UndefinedField,
               items |-> <<>>, total |-> [amount |-> [displayValue |-> ""]]]
OnClickCall(v) == [out |-> "onClick", type |-> "card", name |-> v.cardholderName,
                   items |-> v.items, total |-> v.total]

\* Variant: the callback runs before the event is emitted.
SubmissionCallbackFirst(v) == <<OnClickCall(v), BeginEvent>>

\* What a valid click sends out, in order.
Submission(v) == <<BeginEvent, OnClickCall(v)>>

\* onClick={ () => { if ( isCreditCardFormValid( ... ) ) { onEvent(...); onClick(...) } } }
HandleClick(st, v) ==
    LET r == isCreditCardFormValid(st)
    IN  [validation |-> r,
         out |-> IF r.ret THEN Submission(v) ELSE <<>>]

NoProps == [disabled |-> FALSE, activeButtonText |-> NoText]

Idle(kind) ==
    [kind |-> kind, pre |-> InitialStore, ret |-> FALSE, dispatched |-> <<>>,
     errors |-> InitialStore.cardDataErrors, incompleteFieldKeys |-> <<>>, out |-> <<>>,
     wasSubmitted |-> FALSE, statusAtClick |-> LOADING, cartAtClick |-> CHOOSE c \in Carts : TRUE,
     props |-> NoProps]

ClickRecord(st, h, was, status, lineItems) ==
    [kind |-> "click", pre |-> st, ret |-> h.validation.ret,
     dispatched |-> h.validation.dispatched, errors |-> h.validation.errors,
     incompleteFieldKeys |-> h.validation.incompleteFieldKeys, out |-> h.out,
     wasSubmitted |-> was, statusAtClick |-> status, cartAtClick |-> lineItems,
     props |-> NoProps]

BlockedRecord(status) == [Idle("blocked") EXCEPT !.statusAtClick = status]

RenderRecord(disabled, activeButtonText) ==
    [Idle("render") EXCEPT !.props = [disabled |-> disabled,
                                      activeButtonText |-> activeButtonText]]

\* Variant: a submitting click marks the form as submitting itself.
ClickFrameSetsSubmitting ==
    /\ formStatus' = IF last'.out # <<>> THEN SUBMITTING ELSE formStatus
    /\ UNCHANGED <<cart, view>>

\* The handler touches the store only; the status, the cart and the render stay.
ClickFrame == UNCHANGED <<formStatus, cart, view>>

Click ==
    /\ IF ButtonAcceptsClick(view)
       THEN LET h == HandleClick(store, view)
            IN  /\ store' = h.validation.store
                /\ last' = ClickRecord(store, h, submitted, formStatus, cart)
                /\ submitted' = (submitted \/ h.out # <<>>)
       ELSE /\ last' = BlockedRecord(formStatus)
            /\ UNCHANGED <<store, submitted>>
    /\ ClickFrame

\* React evaluates the component again: fresh hook values, the caller's disabled flag.
Render ==
    /\ \E disabled \in CallerDisabled(formStatus) :
          /\ view' = RenderView(store, formStatus, cart, disabled, view.activeButtonText)
          /\ last' = RenderRecord(disabled, view.activeButtonText)
    /\ UNCHANGED <<store, formStatus, cart, submitted>>

\* The caller renders the button with another activeButtonText.
RenderWithText ==
    /\ \E disabled \in CallerDisabled(formStatus), activeButtonText \in ButtonTexts :
          /\ view' = RenderView(store, formStatus, cart, disabled, activeButtonText)
          /\ last' = RenderRecord(disabled, activeButtonText)
    /\ UNCHANGED <<store, formStatus, cart, submitted>>

-----------------------------------------------------------------------------
(* The environment: the user, the payment elements, the orchestrator.      *)

TypeCardholderName ==
    /\ \E v \in NameValues : store' = dispatch(store, setFieldValue("cardholderName", v))
    /\ last' = Idle("external")
    /\ UNCHANGED <<formStatus, cart, view, submitted>>

CardElementChange ==
    /\ \E key \in CardKeySet, complete \in BOOLEAN, message \in {Null, InvalidMsg} :
          store' = dispatchAll(store, <<setCardDataComplete(key, complete),
                                        setCardDataError(key, message)>>)
    /\ last' = Idle("external")
    /\ UNCHANGED <<formStatus, cart, view, submitted>>

SetFormStatus ==
    /\ \E s \in FormStatus \ {formStatus} :
          /\ formStatus' = s
          /\ submitted' = IF formStatus = SUBMITTING THEN FALSE ELSE submitted
    /\ last' = Idle("external")
    /\ UNCHANGED <<store, cart, view>>

SetLineItems ==
    /\ \E c \in Carts \ {cart} : cart' = c
    /\ last' = Idle("external")
    /\ UNCHANGED <<store, formStatus, view, submitted>>

\* The state after the first render, with the default activeButtonText.
Init ==
    /\ store = InitialStore
    /\ formStatus \in {LOADING, READY}
    /\ cart \in Carts
    /\ \E disabled \in CallerDisabled(formStatus) :
          view = RenderView(store, formStatus, cart, disabled, NoText)
    /\ last = Idle("init")
    /\ submitted = FALSE

Next ==
    \/ Click
    \/ Render
    \/ TypeCardholderName
    \/ CardElementChange
    \/ SetFormStatus
    \/ SetLineItems

Spec == Init /\ [][Next]_vars

\* The label and the flags alone: every status, total, text and disabled flag is
\* rendered, over the untouched store.
NextLabel ==
    \/ RenderWithText
    \/ SetFormStatus
    \/ SetLineItems

SpecLabel == Init /\ [][NextLabel]_vars

-----------------------------------------------------------------------------
(* The claims.                                                             *)

Clicked == last.kind = "click"
PreName == last.pre.fields["cardholderName"]
PreNameEmpty == ~PreName.defined \/ PreName.value = <<>>
Touches == SelectSeq(last.dispatched, LAMBDA a : a.type = "FIELD_VALUE_SET")
ErrorSets == SelectSeq(last.dispatched, LAMBDA a : a.type = "CARD_DATA_ERROR_SET")
PreIncomplete == {key \in CardKeySet : ~last.pre.cardDataComplete[key]}
PreHasError == \E key \in CardKeySet : last.pre.cardDataErrors[key] \notin {Null, ""}
Submitted == Clicked /\ last.out # <<>>

\* C1: a click whose validation returns true emits exactly one
\* STRIPE_TRANSACTION_BEGIN event and then calls onClick exactly once with the
\* method 'card'; a click whose validation returns false emits nothing and calls
\* nothing.
C1_ClickEmitsThenSubmits ==
    Clicked =>
        IF last.ret
        THEN /\ Len(last.out) = 2
             /\ last.out[1].out = "event"
             /\ last.out[1].type = "STRIPE_TRANSACTION_BEGIN"
             /\ last.out[2].out = "onClick"
             /\ last.out[2].type = "card"
        ELSE last.out = <<>>

C1_Witness == Clicked /\ last.ret /\ Len(last.out) = 2

\* C2: the validator returns false exactly when an error mapping value is truthy,
\* the cardholderName value is empty or the field absent, or the list of incomplete
\* keys is non-empty.
C2_VerdictIff ==
    Clicked =>
        (~last.ret <=>
            \/ \E key \in DOMAIN last.errors : last.errors[key] \notin {Null, ""}
            \/ PreNameEmpty
            \/ last.incompleteFieldKeys # <<>>)

C2_Witness ==
    /\ Clicked
    /\ ~last.ret
    /\ ~PreNameEmpty
    /\ last.incompleteFieldKeys = <<>>
    /\ \E key \in DOMAIN last.errors : last.errors[key] = InvalidMsg

\* C3: one validation dispatches setFieldValue('cardholderName', '') exactly once
\* and returns false when the stored value is empty or the field absent, and never
\* dispatches it, leaving the field as it was, when the value is non-empty.
C3_TouchOnlyWhenEmpty ==
    Clicked =>
        IF PreNameEmpty
        THEN /\ Touches = <<setFieldValue("cardholderName", <<>>)>>
             /\ ~last.ret
        ELSE /\ Touches = <<>>
             /\ store.fields["cardholderName"] = PreName

C3_Witness ==
    /\ Clicked
    /\ PreName.defined
    /\ PreName.value = <<>>
    /\ Len(Touches) = 1

\* C4: with N >= 1 incomplete keys the validator returns false and dispatches
\* exactly N setCardDataError actions, one per incomplete key and none for another
\* key, each with the message 'This field is required'.
C4_RequiredPerIncompleteKey ==
    (Clicked /\ PreIncomplete # {}) =>
        /\ ~last.ret
        /\ Len(ErrorSets) = Cardinality(PreIncomplete)
        /\ {ErrorSets[i].key : i \in DOMAIN ErrorSets} = PreIncomplete
        /\ \A i \in DOMAIN ErrorSets : ErrorSets[i].message = RequiredMsg

C4_Witness == Clicked /\ Cardinality(PreIncomplete) = 2 /\ Len(ErrorSets) = 2

\* C5: on a store with a non-empty cardholderName, no truthy error and no incomplete
\* key the validator returns true, dispatches nothing and leaves the store as it
\* was; a second validation right after it does the same.
C5_ValidStoreUntouched ==
    /\ []((Clicked /\ ~PreNameEmpty /\ ~PreHasError /\ PreIncomplete = {}) =>
            (last.ret /\ last.dispatched = <<>> /\ store = last.pre))
    /\ [][(Clicked /\ last.ret /\ last'.kind = "click") =>
            (last'.ret /\ last'.dispatched = <<>> /\ store' = store)]_vars

C5_Witness ==
    /\ Clicked
    /\ ~PreNameEmpty /\ ~PreHasError /\ PreIncomplete = {}
    /\ last.ret
    /\ store = last.pre

\* C6 as stated: whenever the trimmed cardholderName value is empty, a
\* whitespace-only value included, the validator touches the field and returns
\* false, so no click submits a name that is blank after trimming.
C6_TrimmedEmptyRejected ==
    (Clicked /\ (~PreName.defined \/ Trim(PreName.value) = <<>>)) =>
        /\ Len(Touches) = 1
        /\ ~last.ret
        /\ last.out = <<>>

\* C6 amended: the value is not trimmed.  When it has length zero or the field is
\* absent the validator touches the field and returns false, so no click submits
\* over an empty stored name; a non-empty whitespace-only value is not touched and
\* the click submits when nothing else is wrong.
C6_EmptyRejectedBlankAccepted ==
    Clicked =>
        /\ PreNameEmpty => (Len(Touches) = 1 /\ ~last.ret /\ last.out = <<>>)
        /\ last.out # <<>> => (PreName.defined /\ Len(PreName.value) > 0)
        /\ (~PreNameEmpty /\ Trim(PreName.value) = <<>>) =>
              /\ Touches = <<>>
              /\ last.ret <=> (~PreHasError /\ PreIncomplete = {})

C6_Witness ==
    /\ Submitted
    /\ PreName.value = <<" ">>
    /\ Touches = <<>>

\* C7: the name in every submission payload is the cardholderName value the store
\* held at the click, the one the validator read and accepted, and its items and
\* total are the current line items and total.
C7_PayloadIsValidatedName ==
    Submitted =>
        /\ last.out[2].name = PreName
        /\ last.out[2].items = last.cartAtClick.items
        /\ last.out[2].total = last.cartAtClick.total

\* C8 as stated: while FormStatus is SUBMITTING a click emits nothing and calls
\* nothing, so between a submitting click and FormStatus leaving SUBMITTING the
\* callback is called at most once.
C8_SubmissionBlocksClicks ==
    (Clicked /\ (last.statusAtClick = SUBMITTING \/ last.wasSubmitted)) => last.out = <<>>

\* C8 amended: while the button is drawn busy, its latest render having read
\* FormStatus SUBMITTING, a click emits nothing, calls nothing and dispatches
\* nothing.
C8_BusyRenderBlocksClicks ==
    (last.kind \in {"click", "blocked"} /\ view.formStatus = SUBMITTING) =>
        /\ last.kind = "blocked"
        /\ last.out = <<>>
        /\ last.dispatched = <<>>

C8_Witness ==
    /\ last.kind = "blocked"
    /\ view.formStatus = SUBMITTING
    /\ ~view.disabled
    /\ isCreditCardFormValid(store).ret

\* C9: no click, accepted or not, valid or not, and no render changes FormStatus.
C9_NeverSetsFormStatus ==
    [][last'.kind \in {"click", "blocked", "render"} => formStatus' = formStatus]_vars

C9_Witness == Submitted /\ formStatus = READY /\ view.formStatus = READY

\* C10: the label and the busy flag are a function of the status, the
\* activeButtonText and the total: SUBMITTING gives 'Processing...' and busy; READY
\* gives not busy and the activeButtonText when one is given, else 'Pay ' and the
\* total's display value; any other status gives 'Please wait...' and not busy; the
\* disabled flag is the caller's.
C10_LabelAndFlags ==
    /\ view.formStatus = SUBMITTING => (view.label = "Processing..." /\ view.busy)
    /\ view.formStatus = READY =>
          /\ ~view.busy
          /\ view.label = IF view.activeButtonText \in {NoText, ""}
                          THEN "Pay " \o view.total.amount.displayValue
                          ELSE view.activeButtonText
    /\ view.formStatus \notin {SUBMITTING, READY} =>
          (view.label = "Please wait..." /\ ~view.busy)
    /\ last.kind = "render" =>
          /\ view.disabled = last.props.disabled
          /\ view.activeButtonText = last.props.activeButtonText
          /\ view.total = cart.total
          /\ view.formStatus = formStatus

C10_Witness ==
    /\ last.kind = "render"
    /\ view.formStatus = READY
    /\ view.disabled
    /\ view.label = "Save payment method"
====
